---------------------------- MODULE Spec2Model ----------------------------
(***************************************************************************)
(* A model of sentinel-cli: the `analyze` command of main.py, the Analysis *)
(* Client of src/ai_analyzer.py and the File Collector / Archive Processor *)
(* of src/file_handler.py.                                                 *)
(*                                                                         *)
(* Two specifications share the module's variables:                        *)
(*   Spec       one run of `analyze` (main.py), from argument parsing to   *)
(*              process exit;                                              *)
(*   SpecFiles  one call of process_zip_file, or of                        *)
(*              read_project_files_from_dir directly, over a directory     *)
(*              tree (file_handler.py).                                    *)
(* Under each specification the other one's variables keep their idle      *)
(* values.                                                                 *)
(*                                                                         *)
(* Text is modelled as a sequence of tokens.  A file name is a sequence of *)
(* tokens in which "." is the dot character and every other token is a     *)
(* non-empty run of characters without a dot or a separator.  The glyphs   *)
(* that open the program's messages (cross mark, warning sign) are not     *)
(* ASCII and are left out of the string constants below.                   *)
(***************************************************************************)
EXTENDS Integers, Sequences, FiniteSets, TLC

VARIABLES
    \* ---- one run of analyze (main.py) ----
    pc,            \* position in analyze
    task,          \* positional argument `task`
    path,          \* TRUE iff --path was supplied (a Path object is truthy)
    output,        \* --output, a file name
    api_key,       \* --api-key / GEMINI_API_KEY ("" when absent)
    ci_mode,       \* --ci
    client,        \* "none" | "ok" | "failed": get_client(api_key)
    repo,          \* "unopened" | "valid" | "invalid": git.Repo(...)
    gathered,      \* "none" | "empty" | "files" | "diff" | "archive": the context
    archiveRead,   \* TRUE once process_zip_file opened the archive
    backendCalls,  \* number of client.models.generate_content requests
    backendRaised, \* TRUE iff the request raised
    result,        \* value returned by generate_ai_analysis
    written,       \* <<>> or <<[path, content]>>: the output file written
    exit_code,     \* -1 while running, then the process exit code
    \* ---- one call of process_zip_file / read_project_files_from_dir ----
    fpc,           \* position in file_handler.py
    caller,        \* "zip" (process_zip_file) | "direct" | "idle"
    project_path,  \* components of the root directory walked
    tree,          \* the files below the root, in os.walk order
    idx,           \* index in tree of the next file os.walk yields
    full_content,  \* the buffer, as the sequence of appended entries
    content_len,   \* len(full_content), in characters
    crossed,       \* TRUE iff the buffer exceeded MAX_CHAR_LIMIT and returned
    opened,        \* indices in tree of the files open() was called on
    tempDir,       \* "none" | "exists" | "removed": the TemporaryDirectory
    raised         \* "" or the exception the call raised

runVars  == <<pc, task, path, output, api_key, ci_mode, client, repo, gathered,
              archiveRead, backendCalls, backendRaised, result, written,
              exit_code>>
fileVars == <<fpc, caller, project_path, tree, idx, full_content,
              content_len, crossed, opened, tempDir, raised>>
vars     == <<runVars, fileVars>>

---------------------------------------------------------------------------
\* Bounds of the model.

\* longest --output file name, in tokens
MaxNameLen == 3
\* longest backend response or exception message, in words
MaxWords == 2
\* most files in a directory tree
MaxFiles == 3

RECURSIVE SeqsUpTo(_, _)
SeqsUpTo(S, n) ==
    IF n = 0 THEN {<<>>}
    ELSE LET shorter == SeqsUpTo(S, n - 1)
         IN  shorter \cup {Append(s, x) : s \in shorter, x \in S}

---------------------------------------------------------------------------
\* Text and file names.

Dot == "."

\* str.lower(), on the words of the model
Lower(w) == IF w = "Improvements" THEN "improvements" ELSE w

\* the words a response or an exception message is made of
Words == {"improvements", "Improvements", "fine"}

Texts == SeqsUpTo(Words, MaxWords)

\* pathlib: PurePath.suffix.  The last dot of the name starts the suffix
\* unless it is the first or the last character of the name.
LastDot(name) ==
    LET dots == {i \in DOMAIN name : name[i] = Dot}
    IN  IF dots = {} THEN 0 ELSE CHOOSE i \in dots : \A j \in dots : j <= i

Suffix(name) ==
    LET i == LastDot(name)
    IN  IF 1 < i /\ i < Len(name) THEN SubSeq(name, i, Len(name)) ELSE <<>>

\* pathlib: PurePath.with_suffix(".diff"): the name without its suffix,
\* followed by the new suffix.
WithSuffix(name, suffix) ==
    SubSeq(name, 1, Len(name) - Len(Suffix(name))) \o suffix

DiffSuffix == <<Dot, "diff">>

\* --output values: file names with at least one character that is not a
\* dot, in the current directory ("output.md" is <<"output", ".", "md">>).
OutputNames ==
    {n \in SeqsUpTo({"output", Dot, "md"}, MaxNameLen) :
        \E i \in DOMAIN n : n[i] # Dot}

---------------------------------------------------------------------------
\* src/ai_analyzer.py

\* the keys of `prompts`
PromptTasks == {"documentation", "improvements", "commits", "apply-improvements"}

\* the task names of the model: the four known ones and one unknown
TaskNames == PromptTasks \cup {"lint"}

UnknownTaskMessage ==
    <<"Unknown task. The available tasks are:", "documentation",
      "improvements", "commits", "apply-improvements">>

NoContentMessage == <<"The ai model did not return any content.">>

ErrorMarker == "Error generating AI analysis: "

\* what client.models.generate_content can do: return a response whose
\* text is `body` (empty for None or ""), or raise with message `body`
BackendOutcomes == [kind : {"text", "raise"}, body : Texts]

\* generate_ai_analysis, after the prompt lookup succeeded
AnalysisOf(outcome) ==
    IF outcome.kind = "raise"
    THEN <<ErrorMarker>> \o outcome.body
    ELSE IF outcome.body = <<>> THEN NoContentMessage ELSE outcome.body

---------------------------------------------------------------------------
\* main.py: analyze

\* a refusal list that forgets the patch task
ArchiveRefusedTasks_Mut == {"commits"}

\* main.py line 60
ArchiveRefusedTasks == {"commits", "apply-improvements"}

\* main.py line 89
StagingTasks == {"improvements", "commits", "apply-improvements"}

\* what process_zip_file does, seen from analyze: a context, one of the
\* three exceptions analyze catches, or any other exception
ZipOutcomes == {"ok", "FileNotFoundError", "BadZipFile", "ValueError", "OSError"}

Exit(code) ==
    /\ pc' = "done"
    /\ exit_code' = code

\* lines 47-49
CheckApiKey ==
    /\ pc = "start"
    /\ IF api_key = ""
       THEN Exit(1)
       ELSE pc' = "client" /\ UNCHANGED exit_code
    /\ UNCHANGED <<task, path, output, api_key, ci_mode, client, repo, gathered,
                   archiveRead, backendCalls, backendRaised, result, written>>
    /\ UNCHANGED fileVars

\* lines 51-55: get_client returns a client or raises ConnectionError
GetClient ==
    /\ pc = "client"
    /\ \E ok \in BOOLEAN :
          IF ok
          THEN client' = "ok" /\ pc' = "dispatch" /\ UNCHANGED exit_code
          ELSE client' = "failed" /\ Exit(1)
    /\ UNCHANGED <<task, path, output, api_key, ci_mode, repo, gathered,
                   archiveRead, backendCalls, backendRaised, result, written>>
    /\ UNCHANGED fileVars

\* lines 59-64
RefuseArchive ==
    /\ pc = "dispatch"
    /\ path
    /\ task \in ArchiveRefusedTasks
    /\ Exit(1)
    /\ UNCHANGED <<task, path, output, api_key, ci_mode, client, repo, gathered,
                   archiveRead, backendCalls, backendRaised, result, written>>
    /\ UNCHANGED fileVars

\* lines 65-68
ProcessArchive ==
    /\ pc = "dispatch"
    /\ path
    /\ task \notin ArchiveRefusedTasks
    /\ \E o \in ZipOutcomes :
          /\ archiveRead' = (o # "FileNotFoundError")
          /\ IF o = "ok"
             THEN /\ gathered' = "archive"
                  /\ pc' = "generate"
                  /\ UNCHANGED exit_code
             ELSE /\ Exit(1)
                  /\ UNCHANGED gathered
    /\ UNCHANGED <<task, path, output, api_key, ci_mode, client, repo,
                   backendCalls, backendRaised, result, written>>
    /\ UNCHANGED fileVars

\* lines 70-74
OpenRepo ==
    /\ pc = "dispatch"
    /\ ~path
    /\ \E found \in BOOLEAN :
          IF found
          THEN repo' = "valid" /\ pc' = "git" /\ UNCHANGED exit_code
          ELSE repo' = "invalid" /\ Exit(1)
    /\ UNCHANGED <<task, path, output, api_key, ci_mode, client, gathered,
                   archiveRead, backendCalls, backendRaised, result, written>>
    /\ UNCHANGED fileVars

\* lines 75-88: get_all_tracked_files_content
Documentation ==
    /\ pc = "git"
    /\ task = "documentation"
    /\ \E empty \in BOOLEAN :
          IF empty
          THEN gathered' = "empty" /\ Exit(1)
          ELSE gathered' = "files" /\ pc' = "generate" /\ UNCHANGED exit_code
    /\ UNCHANGED <<task, path, output, api_key, ci_mode, client, repo,
                   archiveRead, backendCalls, backendRaised, result, written>>
    /\ UNCHANGED fileVars

\* the empty staging area treated as a failure, as on line 84
NothingStaged_Mut == Exit(1)

\* lines 94 and 102: `raise typer.Exit()`, whose code defaults to 0
NothingStaged == Exit(0)

\* lines 91-98: get_staged_files_content
StagedFiles ==
    /\ pc = "git"
    /\ task \in StagingTasks
    /\ task = "improvements"
    /\ \E empty \in BOOLEAN :
          IF empty
          THEN gathered' = "empty" /\ NothingStaged
          ELSE gathered' = "files" /\ pc' = "generate" /\ UNCHANGED exit_code
    /\ UNCHANGED <<task, path, output, api_key, ci_mode, client, repo,
                   archiveRead, backendCalls, backendRaised, result, written>>
    /\ UNCHANGED fileVars

\* lines 99-102: get_staged_diff
StagedDiff ==
    /\ pc = "git"
    /\ task \in StagingTasks
    /\ task # "improvements"
    /\ \E empty \in BOOLEAN :
          IF empty
          THEN gathered' = "empty" /\ NothingStaged
          ELSE gathered' = "diff" /\ pc' = "generate" /\ UNCHANGED exit_code
    /\ UNCHANGED <<task, path, output, api_key, ci_mode, client, repo,
                   archiveRead, backendCalls, backendRaised, result, written>>
    /\ UNCHANGED fileVars

\* lines 103-105
UnsupportedTask ==
    /\ pc = "git"
    /\ task # "documentation"
    /\ task \notin StagingTasks
    /\ Exit(1)
    /\ UNCHANGED <<task, path, output, api_key, ci_mode, client, repo, gathered,
                   archiveRead, backendCalls, backendRaised, result, written>>
    /\ UNCHANGED fileVars

\* line 107, ai_analyzer.py lines 64-65: no prompt for the task, no request
GenerateUnknown ==
    /\ pc = "generate"
    /\ task \notin PromptTasks
    /\ result' = UnknownTaskMessage
    /\ pc' = "write"
    /\ UNCHANGED <<task, path, output, api_key, ci_mode, client, repo, gathered,
                   archiveRead, backendCalls, backendRaised, written, exit_code>>
    /\ UNCHANGED fileVars

\* line 107, ai_analyzer.py lines 67-73: one request; its exception is caught
Generate ==
    /\ pc = "generate"
    /\ task \in PromptTasks
    /\ \E o \in BackendOutcomes :
          /\ backendRaised' = (o.kind = "raise")
          /\ result' = AnalysisOf(o)
    /\ backendCalls' = backendCalls + 1
    /\ pc' = "write"
    /\ UNCHANGED <<task, path, output, api_key, ci_mode, client, repo, gathered,
                   archiveRead, written, exit_code>>
    /\ UNCHANGED fileVars

\* the output name used as given for every task
OutputPath_Mut(t, o) == o

\* lines 109-111
OutputPath(t, o) ==
    IF t = "apply-improvements" THEN WithSuffix(o, DiffSuffix) ELSE o

\* lines 113-116
WriteOutput ==
    /\ pc = "write"
    /\ written' = <<[path |-> OutputPath(task, output), content |-> result]>>
    /\ pc' = "ci"
    /\ UNCHANGED <<task, path, output, api_key, ci_mode, client, repo, gathered,
                   archiveRead, backendCalls, backendRaised, result, exit_code>>
    /\ UNCHANGED fileVars

\* the CI heuristic applied to every task
CiFails_Mut(ci, t, r) ==
    /\ ci
    /\ \E i \in DOMAIN r : Lower(r[i]) = "improvements"

\* line 118
CiFails(ci, t, r) ==
    /\ ci
    /\ t = "improvements"
    /\ \E i \in DOMAIN r : Lower(r[i]) = "improvements"

\* lines 118-120, then the command returns
CiCheck ==
    /\ pc = "ci"
    /\ IF CiFails(ci_mode, task, result) THEN Exit(1) ELSE Exit(0)
    /\ UNCHANGED <<task, path, output, api_key, ci_mode, client, repo, gathered,
                   archiveRead, backendCalls, backendRaised, result, written>>
    /\ UNCHANGED fileVars

IdleFiles ==
    /\ fpc = "idle"
    /\ caller = "idle"
    /\ project_path = <<>>
    /\ tree = <<>>
    /\ idx = 1
    /\ full_content = <<>>
    /\ content_len = 0
    /\ crossed = FALSE
    /\ opened = <<>>
    /\ tempDir = "none"
    /\ raised = ""

Init ==
    /\ pc = "start"
    /\ task \in TaskNames
    /\ path \in BOOLEAN
    /\ output \in OutputNames
    /\ api_key \in {"", "key"}
    /\ ci_mode \in BOOLEAN
    /\ client = "none"
    /\ repo = "unopened"
    /\ gathered = "none"
    /\ archiveRead = FALSE
    /\ backendCalls = 0
    /\ backendRaised = FALSE
    /\ result = <<>>
    /\ written = <<>>
    /\ exit_code = -1
    /\ IdleFiles

Next ==
    \/ CheckApiKey
    \/ GetClient
    \/ RefuseArchive
    \/ ProcessArchive
    \/ OpenRepo
    \/ Documentation
    \/ StagedFiles
    \/ StagedDiff
    \/ UnsupportedTask
    \/ GenerateUnknown
    \/ Generate
    \/ WriteOutput
    \/ CiCheck

Spec == Init /\ [][Next]_vars

---------------------------------------------------------------------------
\* src/file_handler.py

IGNORED_DIRS == {"node_modules", ".git", ".next", "__pycache__", "dist"}

ALLOWED_EXTENSIONS ==
    {<<Dot, e>> : e \in {"js", "ts", "tsx", "json", "css", "html",
                         "md", "py", "go", "rs"}}

MAX_CHAR_LIMIT == 2000000

\* the paths a tree of the model may hold, in the order os.walk yields them
\* (a directory's files, then its subdirectories)
WalkPaths ==
    << [dirs |-> <<>>,                      name |-> <<"a", Dot, "py">>],
       [dirs |-> <<>>,                      name |-> <<"b", Dot, "exe">>],
       [dirs |-> <<"node_modules", "pkg">>, name |-> <<"c", Dot, "js">>],
       [dirs |-> <<"src">>,                 name |-> <<"a", Dot, "py">>],
       [dirs |-> <<"src">>,                 name |-> <<"b", Dot, "md">>],
       [dirs |-> <<"src", "dist">>,         name |-> <<"c", Dot, "js">>] >>

\* file sizes, in characters: empty, just below the limit, above the limit
FileSizes == {0, 1999900, 2000001}

\* the files that may sit at WalkPaths[k]: unreadable or readable, of any
\* size; the content of a file is identified by its place and its size
FilesAt(k) ==
    {[dirs     |-> WalkPaths[k].dirs,
      name     |-> WalkPaths[k].name,
      readable |-> r,
      content  |-> [of |-> k, len |-> z]] : r \in BOOLEAN, z \in FileSizes}

\* the trees of at most n files over WalkPaths[k], WalkPaths[k+1], ...
RECURSIVE TreesFrom(_, _)
TreesFrom(k, n) ==
    IF k > Len(WalkPaths) \/ n = 0 THEN {<<>>}
    ELSE TreesFrom(k + 1, n)
         \cup {<<f>> \o t : f \in FilesAt(k), t \in TreesFrom(k + 1, n - 1)}

Trees == TreesFrom(1, MaxFiles)

\* root directories, as path.split(os.sep) gives them: a temporary
\* directory under /tmp, one under /srv/dist, and the relative "project"
ProjectPaths ==
    {<<"", "tmp", "tmpk3x">>, <<"", "srv", "dist", "tmpk3x">>, <<"project">>}

\* number of characters of a sequence of tokens
RECURSIVE CharLen(_)
CharLen(toks) ==
    IF toks = <<>> THEN 0 ELSE Len(Head(toks)) + CharLen(Tail(toks))

\* line 46: Path(root) / file, with root the directory os.walk is in
WalkRoot(root, f) == root \o f.dirs

\* line 52: os.path.relpath(file_path, project_path)
RelPath(f) == [dirs |-> f.dirs, name |-> f.name]

\* len(relative_path): the components and one separator after each directory
RelPathLen(f) == CharLen(f.dirs) + Len(f.dirs) + CharLen(f.name)

\* lines 53-55: the characters one file adds to the buffer
EntryLen(f) ==
    Len("\n\n--- Start of file: ") + RelPathLen(f) + Len(" ---\n")
      + f.content.len
      + Len("\n--- End of file: ") + RelPathLen(f) + Len(" ---\n")

\* a filter that looks at the directory's own name only
IsIgnored_Mut(root) == root[Len(root)] \in IGNORED_DIRS

\* line 42: any(ignored_dir in root.split(os.sep) ...)
IsIgnored(root) == \E i \in DOMAIN root : root[i] \in IGNORED_DIRS

\* line 48
IsAllowed(name) == Suffix(name) \in ALLOWED_EXTENSIONS

\* a size guard that tests the buffer before the append
LimitExceeded_Mut(before, after) == before > MAX_CHAR_LIMIT

\* line 57: len(full_content) > MAX_CHAR_LIMIT, after the append
LimitExceeded(before, after) == after > MAX_CHAR_LIMIT

\* a temporary directory removed on the successful path only
AfterWith_Mut(exc) == IF exc = "" THEN "removed" ELSE "exists"

\* line 90: leaving `with tempfile.TemporaryDirectory()` removes the
\* directory, whether the block returns or raises `exc`
AfterWith(exc) == "removed"

Current == tree[idx]

\* process_zip_file or read_project_files_from_dir is left, by a return
\* or by the exception exc
Leave(exc) ==
    /\ fpc' = "returned"
    /\ raised' = exc

\* lines 86-88: os.path.exists(zip_path)
CheckExists ==
    /\ fpc = "zip_entry"
    /\ \E exists \in BOOLEAN :
          IF exists
          THEN fpc' = "zip_with" /\ UNCHANGED raised
          ELSE Leave("FileNotFoundError")
    /\ UNCHANGED <<caller, project_path, tree, idx, full_content,
                   content_len, crossed, opened, tempDir>>
    /\ UNCHANGED runVars

\* line 90: the temporary directory is created
EnterTempDir ==
    /\ fpc = "zip_with"
    /\ tempDir' = "exists"
    /\ fpc' = "zip_extract"
    /\ UNCHANGED <<caller, project_path, tree, idx, full_content,
                   content_len, crossed, opened, raised>>
    /\ UNCHANGED runVars

\* lines 92-97: extractall succeeds, or raises BadZipFile (re-raised) or
\* another error (not caught); both leave the with block
Extract ==
    /\ fpc = "zip_extract"
    /\ \E exc \in {"", "BadZipFile", "OSError"} :
          IF exc = ""
          THEN fpc' = "walk" /\ UNCHANGED <<raised, tempDir>>
          ELSE Leave(exc) /\ tempDir' = AfterWith(exc)
    /\ UNCHANGED <<caller, project_path, tree, idx, full_content,
                   content_len, crossed, opened>>
    /\ UNCHANGED runVars

\* lines 40-43: the directory of the next file is filtered out
SkipIgnoredDir ==
    /\ fpc = "walk"
    /\ idx <= Len(tree)
    /\ IsIgnored(WalkRoot(project_path, Current))
    /\ idx' = idx + 1
    /\ UNCHANGED <<fpc, caller, project_path, tree, full_content,
                   content_len, crossed, opened, tempDir, raised>>
    /\ UNCHANGED runVars

\* line 48: the file's extension is not allowed
SkipExtension ==
    /\ fpc = "walk"
    /\ idx <= Len(tree)
    /\ ~IsIgnored(WalkRoot(project_path, Current))
    /\ ~IsAllowed(Current.name)
    /\ idx' = idx + 1
    /\ UNCHANGED <<fpc, caller, project_path, tree, full_content,
                   content_len, crossed, opened, tempDir, raised>>
    /\ UNCHANGED runVars

\* lines 49-51, 60-62: open() or read() raises; a warning, nothing appended
SkipUnreadable ==
    /\ fpc = "walk"
    /\ idx <= Len(tree)
    /\ ~IsIgnored(WalkRoot(project_path, Current))
    /\ IsAllowed(Current.name)
    /\ ~Current.readable
    /\ opened' = Append(opened, idx)
    /\ idx' = idx + 1
    /\ UNCHANGED <<fpc, caller, project_path, tree, full_content,
                   content_len, crossed, tempDir, raised>>
    /\ UNCHANGED runVars

\* lines 49-59: the file is appended between its markers; the function
\* returns at once when the buffer now exceeds the limit
AppendFile ==
    /\ fpc = "walk"
    /\ idx <= Len(tree)
    /\ ~IsIgnored(WalkRoot(project_path, Current))
    /\ IsAllowed(Current.name)
    /\ Current.readable
    /\ opened' = Append(opened, idx)
    /\ full_content' = Append(full_content,
                              [rel     |-> RelPath(Current),
                               content |-> Current.content])
    /\ content_len' = content_len + EntryLen(Current)
    /\ IF LimitExceeded(content_len, content_len')
       THEN crossed' = TRUE /\ fpc' = "collected" /\ UNCHANGED idx
       ELSE idx' = idx + 1 /\ UNCHANGED <<crossed, fpc>>
    /\ UNCHANGED <<caller, project_path, tree, tempDir, raised>>
    /\ UNCHANGED runVars

\* line 63: os.walk is exhausted
WalkDone ==
    /\ fpc = "walk"
    /\ idx > Len(tree)
    /\ fpc' = "collected"
    /\ UNCHANGED <<caller, project_path, tree, idx, full_content,
                   content_len, crossed, opened, tempDir, raised>>
    /\ UNCHANGED runVars

\* an exception that `except Exception` on line 60 does not catch
\* (KeyboardInterrupt) leaves the collector and, under process_zip_file,
\* the with block
CollectRaises ==
    /\ fpc = "walk"
    /\ Leave("KeyboardInterrupt")
    /\ tempDir' = IF caller = "zip" THEN AfterWith("KeyboardInterrupt")
                  ELSE tempDir
    /\ UNCHANGED <<caller, project_path, tree, idx, full_content,
                   content_len, crossed, opened>>
    /\ UNCHANGED runVars

\* read_project_files_from_dir called directly returns its buffer
ReturnBuffer ==
    /\ fpc = "collected"
    /\ caller = "direct"
    /\ Leave("")
    /\ UNCHANGED <<caller, project_path, tree, idx, full_content,
                   content_len, crossed, opened, tempDir>>
    /\ UNCHANGED runVars

\* lines 99-105: an empty buffer raises ValueError, any other is returned;
\* both leave the with block
CheckContent ==
    /\ fpc = "collected"
    /\ caller = "zip"
    /\ LET exc == IF content_len = 0 THEN "ValueError" ELSE ""
       IN  Leave(exc) /\ tempDir' = AfterWith(exc)
    /\ UNCHANGED <<caller, project_path, tree, idx, full_content,
                   content_len, crossed, opened>>
    /\ UNCHANGED runVars

IdleRun ==
    /\ pc = "idle"
    /\ task = "documentation"
    /\ path = TRUE
    /\ output = <<"output", Dot, "md">>
    /\ api_key = ""
    /\ ci_mode = FALSE
    /\ client = "none"
    /\ repo = "unopened"
    /\ gathered = "none"
    /\ archiveRead = FALSE
    /\ backendCalls = 0
    /\ backendRaised = FALSE
    /\ result = <<>>
    /\ written = <<>>
    /\ exit_code = -1

InitFiles ==
    /\ caller \in {"zip", "direct"}
    /\ fpc = IF caller = "zip" THEN "zip_entry" ELSE "walk"
    /\ project_path \in ProjectPaths
    /\ tree \in Trees
    /\ idx = 1
    /\ full_content = <<>>
    /\ content_len = 0
    /\ crossed = FALSE
    /\ opened = <<>>
    /\ tempDir = "none"
    /\ raised = ""
    /\ IdleRun

NextFiles ==
    \/ CheckExists
    \/ EnterTempDir
    \/ Extract
    \/ SkipIgnoredDir
    \/ SkipExtension
    \/ SkipUnreadable
    \/ AppendFile
    \/ WalkDone
    \/ CollectRaises
    \/ ReturnBuffer
    \/ CheckContent

SpecFiles == InitFiles /\ [][NextFiles]_vars

---------------------------------------------------------------------------
\* Properties of analyze, checked under Spec.

CredentialValid == client = "ok"

\* the run reached the call of generate_ai_analysis on line 107
ReachedGeneration == result # <<>>

\* C1: with a valid credential, a run whose task name is outside the four
\* known ones ends with a non-zero exit code and no output file, with or
\* without an archive path.
C1_UnknownTaskFails ==
    (pc = "done" /\ CredentialValid /\ task \notin PromptTasks)
        => (exit_code # 0 /\ written = <<>>)

\* C2: a run given an archive path and the task commits or
\* apply-improvements never reads the archive, never calls the backend,
\* never writes an output file, and ends with exit code 1.
C2_ArchiveRefusedBeforeAnyWork ==
    (path /\ task \in {"commits", "apply-improvements"})
        => /\ ~archiveRead
           /\ backendCalls = 0
           /\ written = <<>>
           /\ pc = "done" => exit_code = 1

C2_Witness ==
    /\ pc = "done"
    /\ path
    /\ task = "apply-improvements"
    /\ CredentialValid
    /\ exit_code = 1

\* C3: inside a Git repository, with a valid credential and no archive
\* path, a run that finds nothing staged (an empty diff for commits and
\* apply-improvements, an empty mapping for improvements) ends with exit
\* code 0, no backend request and no output file.
C3_NothingStagedIsSuccess ==
    (/\ pc = "done"
     /\ ~path
     /\ CredentialValid
     /\ repo = "valid"
     /\ task \in {"improvements", "commits", "apply-improvements"}
     /\ gathered = "empty")
        => (exit_code = 0 /\ backendCalls = 0 /\ written = <<>>)

C3_Witness ==
    /\ pc = "done"
    /\ ~path
    /\ repo = "valid"
    /\ task = "commits"
    /\ gathered = "empty"
    /\ exit_code = 0

\* C4: when the backend request raises, generate_ai_analysis returns a
\* string that begins with the error marker, the output file holds exactly
\* that string, and the run ends with exit code 0.
C4_BackendErrorExitsZero ==
    (pc = "done" /\ backendRaised)
        => /\ result[1] = ErrorMarker
           /\ written # <<>>
           /\ written[1].content = result
           /\ exit_code = 0

\* C5: the output file of apply-improvements has the extension .diff,
\* whatever --output was; the output file of every other task is the file
\* --output names.
C5_OutputPath ==
    written # <<>>
        => IF task = "apply-improvements"
           THEN Suffix(written[1].path) = <<".", "diff">>
           ELSE written[1].path = output

C5_Witness ==
    /\ written # <<>>
    /\ task = "apply-improvements"
    /\ output = <<"output", ".", "md">>
    /\ written[1].path = <<"output", ".", "diff">>

\* C10: a run that reached the generation call ends with exit code 1 when
\* CI mode is set, the task is improvements and the result contains the
\* word "improvements" (in any case), and with exit code 0 otherwise; the
\* output file is written before the run ends.
C10_CiExitCode ==
    (ReachedGeneration /\ pc \in {"ci", "done"})
        => /\ written # <<>>
           /\ pc = "done" =>
                exit_code =
                    IF /\ ci_mode
                       /\ task = "improvements"
                       /\ \E i \in DOMAIN result :
                             result[i] \in {"improvements", "Improvements"}
                    THEN 1 ELSE 0

C10_Witness ==
    /\ pc = "done"
    /\ ReachedGeneration
    /\ ci_mode
    /\ task = "improvements"
    /\ ~backendRaised
    /\ result = <<"fine", "Improvements">>
    /\ written # <<>>
    /\ exit_code = 1

---------------------------------------------------------------------------
\* Properties of the File Collector and the Archive Processor, checked
\* under SpecFiles.

Returned == fpc = "returned" /\ raised = ""

Last(seq) == seq[Len(seq)]

\* the file's extension is in the allow-list
HasAllowedExtension(f) == Suffix(f.name) \in ALLOWED_EXTENSIONS

\* no directory between the root and the file has an ignored name
NoIgnoredDirBelowRoot(f) ==
    \A j \in DOMAIN f.dirs : f.dirs[j] \notin IGNORED_DIRS

\* the buffer holds the file's content between its markers
Collected(f) ==
    \E i \in DOMAIN full_content :
        /\ full_content[i].rel = [dirs |-> f.dirs, name |-> f.name]
        /\ full_content[i].content = f.content

\* C6: when process_zip_file is left, by a return or by an exception, the
\* temporary extraction directory does not exist.
C6_TempDirRemoved ==
    (caller = "zip" /\ fpc = "returned") => tempDir # "exists"

C6_Witness ==
    /\ caller = "zip"
    /\ fpc = "returned"
    /\ raised = "ValueError"
    /\ tree # <<>>
    /\ tempDir = "removed"

\* C7: when every file is readable and the collected content stays within
\* the character limit, the returned buffer holds every file that has an
\* allowed extension and no ignored directory name between the root and
\* itself.
C7_EveryEligibleFileCollected ==
    (/\ Returned
     /\ \A k \in DOMAIN tree : tree[k].readable
     /\ content_len <= MAX_CHAR_LIMIT)
        => \A k \in DOMAIN tree :
              (HasAllowedExtension(tree[k]) /\ NoIgnoredDirBelowRoot(tree[k]))
                  => Collected(tree[k])

\* C8: the buffer never holds a file that lies under a directory with an
\* ignored name, nor a file whose extension is outside the allow-list.
C8_OnlyEligibleFilesCollected ==
    \A i \in DOMAIN full_content :
        \E k \in DOMAIN tree :
            /\ full_content[i].rel.dirs = tree[k].dirs
            /\ full_content[i].rel.name = tree[k].name
            /\ full_content[i].content = tree[k].content
            /\ HasAllowedExtension(tree[k])
            /\ NoIgnoredDirBelowRoot(tree[k])

C8_Witness ==
    /\ Returned
    /\ full_content # <<>>
    /\ \E k \in DOMAIN tree :
          /\ tree[k].dirs = <<"node_modules", "pkg">>
          /\ tree[k].readable
    /\ \E k \in DOMAIN tree :
          /\ tree[k].name = <<"b", ".", "exe">>
          /\ tree[k].readable

\* after the append that crossed the limit no further file is read: the
\* last file opened is the last file in the buffer
NoReadAfterCrossing ==
    crossed => /\ fpc # "walk"
               /\ opened # <<>>
               /\ full_content # <<>>
               /\ tree[Last(opened)].content = Last(full_content).content

\* C9, as stated: the buffer is never longer than the character limit plus
\* the length of the one file whose append crossed the limit, and no file
\* is read after that append.
C9_LimitPlusOneFile ==
    /\ content_len <=
          MAX_CHAR_LIMIT
            + (IF full_content = <<>> THEN 0 ELSE Last(full_content).content.len)
    /\ NoReadAfterCrossing

\* C9, amended: the buffer is never longer than the character limit plus
\* the length of the last file appended together with its two marker lines
\* (49 characters and twice the relative path), and no file is read after
\* the append that crossed the limit.
C9_LimitPlusOneEntry ==
    /\ content_len <=
          MAX_CHAR_LIMIT
            + (IF full_content = <<>> THEN 0
               ELSE LET e == Last(full_content)
                        relLen == CharLen(e.rel.dirs) + Len(e.rel.dirs)
                                    + CharLen(e.rel.name)
                    IN  e.content.len + 49 + 2 * relLen)
    /\ NoReadAfterCrossing

C9_Witness ==
    /\ Returned
    /\ crossed
    /\ Len(full_content) = 2
    /\ content_len > MAX_CHAR_LIMIT + Last(full_content).content.len
    /\ idx < Len(tree)
    /\ HasAllowedExtension(tree[idx + 1])
    /\ NoIgnoredDirBelowRoot(tree[idx + 1])
    /\ tree[idx + 1].readable

===========================================================================
